---- MODULE Spec2Model ----
(***************************************************************************)
(* Model of the UniBot ingestion crawler: CollegeScraper.scrape_website    *)
(* (src/college_scraper.py) with its two persistence helpers,              *)
(* ScrapeTracker (src/ingestion/scrape_tracker.py) and ScrapeCheckpoint    *)
(* (src/scrape_checkpoint.py).                                             *)
(*                                                                         *)
(* A URL is a sequence of tokens: the first token is scheme+host, the      *)
(* others are "/", path names, extensions, "#" and fragment names.  The    *)
(* string functions of the source (rstrip, split, lower, endswith) are     *)
(* computed on these sequences.                                            *)
(*                                                                         *)
(* One step of the crawler is the code between two suspension points       *)
(* (awaits): a whole iteration of the traversal loop, a whole iteration    *)
(* of the PDF pass, the final saves.  The process can die between steps.   *)
(*                                                                         *)
(* Specifications: Spec (the crawl over several runs), SpecGraph (an       *)
(* uninterrupted crawl of a page graph), SpecTracker (ScrapeTracker        *)
(* objects of several scrapers), SpecBrowser (the browser handles of one   *)
(* scrape_website call), SpecUrl (_normalize_url as a function),           *)
(* SpecIngest (RAGSystem.add_documents, src/rag_system.py),                *)
(* SpecCheckpoint (the checkpoint file, written member by member),         *)
(* SpecPdf (the stages of PDFProcessor.extract_text), SpecTasks (the       *)
(* operations awaited under asyncio.wait_for), SpecPage (the browser page  *)
(* of scrape_page) and SpecRerun (SpecGraph with further calls and         *)
(* fairness).                                                              *)
(***************************************************************************)
EXTENDS Integers, Sequences, FiniteSets, TLC

(* ------------------------------ bounds -------------------------------- *)
\* max_pages and max_depth of the CollegeScraper under study, and the
\* number of scrape_website runs that are followed.
MaxPages == 11
MaxDepth == 2
MaxRuns == 3
\* the number of tokens after the host of the URLs given to _normalize_url
MaxUrlLen == 4
\* the number of add_documents calls that are followed
MaxCalls == 3
\* operations (page fetches and PDF extractions) awaited in one session
MaxOps == 6

(* -------------------------- program constants ------------------------- *)
checkpoint_interval == 10
\* collection.get(limit=10000) in get_existing_sources
get_limit == 10000
\* batch_size of add_documents
batch_size == 5000
\* extract_text: the quality threshold 0.3, in thousandths
quality_threshold == 300
\* the 50 characters below which a text counts as no text
min_text_len == 50

(* ------------------------------- URLs --------------------------------- *)
Lower(t) ==
  CASE t = "P2" -> "p2"
    [] t = "D" -> "d"
    [] t = ".PDF" -> ".pdf"
    [] OTHER -> t

LowerUrl(u) == [i \in 1..Len(u) |-> Lower(u[i])]

RECURSIVE RStripSlash(_)
RStripSlash(u) ==
  IF u = <<>> THEN u
  ELSE IF u[Len(u)] = "/" THEN RStripSlash(SubSeq(u, 1, Len(u) - 1))
  ELSE u

HasToken(u, t) == \E i \in 1..Len(u) : u[i] = t

FirstIndex(u, t) == CHOOSE i \in 1..Len(u) : u[i] = t /\ \A j \in 1..(i - 1) : u[j] # t

BeforeFragment(u) ==
  IF HasToken(u, "#") THEN SubSeq(u, 1, FirstIndex(u, "#") - 1) ELSE u

\* _normalize_url: rstrip('/'), then cut at the first '#', then lower().
_normalize_url(u) == LowerUrl(BeforeFragment(RStripSlash(u)))

EndsWith(u, t) == u # <<>> /\ u[Len(u)] = t

\* PDFProcessor.is_pdf_url
is_pdf_url(u) ==
  EndsWith(LowerUrl(u), ".pdf") \/ HasToken(LowerUrl(u), "application/pdf")

\* urlparse(u).netloc and urlparse(u).path
Netloc(u) == IF u = <<>> THEN "" ELSE u[1]
PathOf(u) == IF u = <<>> THEN <<>> ELSE Tail(BeforeFragment(u))

\* len([p for p in path.split('/') if p])
SegmentCount(p) ==
  Cardinality({i \in 1..Len(p) : p[i] # "/" /\ (i = 1 \/ p[i - 1] = "/")})

Base == <<"h">>

_get_url_depth(u) == SegmentCount(PathOf(u)) - SegmentCount(PathOf(Base))

SkipExtensions ==
  {".doc", ".docx", ".xls", ".xlsx", ".zip", ".rar",
   ".jpg", ".jpeg", ".png", ".gif", ".svg", ".ico", ".webp"}

SkipSchemes == {"javascript:", "mailto:", "tel:"}

_is_valid_url_AnyHost(u) ==
  /\ ~(u # <<>> /\ LowerUrl(u)[Len(u)] \in SkipExtensions)
  /\ ~HasToken(u, "#")
  /\ \A s \in SkipSchemes : ~HasToken(LowerUrl(u), s)

\* _is_valid_url with include_pdfs = True
_is_valid_url(u) ==
  /\ Netloc(u) = Netloc(Base)
  /\ ~(u # <<>> /\ LowerUrl(u)[Len(u)] \in SkipExtensions)
  /\ ~HasToken(u, "#")
  /\ \A s \in SkipSchemes : ~HasToken(LowerUrl(u), s)

(* ------------------------------ the site ------------------------------ *)
\* The web site that is crawled: the hrefs found on each page (keyed by the
\* normalized URL that is fetched).  Raw hrefs keep their case, trailing
\* slashes and fragments.
U(n) == <<"h", "/", n>>

Links(u) ==
  CASE u = Base -> {U("p1"), <<"h", "/", "r", ".pdf">>, <<"x", "/", "q">>,
                    <<"h", "/", "p1", "#", "f">>, <<"h", "/", "logo", ".png">>,
                    <<"h", "/", "p1", "/", "s", "/", "t">>}
    [] u = U("p1") -> {<<"h", "/", "P2", "/">>}
    [] u = U("p2") -> {U("p3"), <<"h", "/", "D", ".PDF">>, <<"h", "/">>,
                       <<"x", "/", "e", ".pdf">>}
    [] u = U("p3") -> {U("p4")}
    [] u = U("p4") -> {U("p5")}
    [] u = U("p5") -> {U("p6")}
    [] u = U("p6") -> {U("p7")}
    [] u = U("p7") -> {U("p8")}
    [] u = U("p8") -> {U("p9")}
    [] u = U("p9") -> {U("p10")}
    [] u = U("p10") -> {U("p11"), <<"h", "/", "d", ".PDF">>}
    \* a second part of the site, not linked from the first: pages only, no
    \* PDFs, every page reliable
    [] u = U("g0") -> {U("g1"), U("g2"), U("g3")}
    [] u = U("g1") -> {U("g4"), U("g5"), U("g6")}
    [] u = U("g2") -> {U("g7"), U("g8"), U("g9")}
    [] u = U("g3") -> {U("g10"), U("g11"), U("g12")}
    [] u = U("g4") -> {U("g13")}
    [] u = U("g5") -> {U("g0")}
    [] u = U("g12") -> {U("g15")}
    [] u = U("g13") -> {U("g14")}
    [] OTHER -> {}

\* Pages whose load may fail, time out or yield too little text, and pages
\* whose link extraction may time out.  Every other fetch succeeds.
Unreliable == {Base, U("p3")}
LinkFlaky == {U("p2")}

\* The start_urls lists that callers pass (None means [base_url]).
SeedLists ==
  {<<Base>>,
   <<<<"h", "/", "d", ".pdf">>, <<"x", "/", "q">>, Base, <<"h", "/">>,
     <<"h", "/", "p1", "/", "s", "/", "t", "/", "v">>>>}

\* The start_urls of a crawl of the second part of the site.
GraphSeeds == <<U("g0")>>

\* All orders in which list(set(valid_links)) can enumerate a set of links.
Orderings(S) ==
  {s \in [1..Cardinality(S) -> S] : \A i, j \in 1..Cardinality(S) : s[i] = s[j] => i = j}

(* ------------------------------- state -------------------------------- *)
VARIABLES
  trackerFile,      \* scrape_tracker.json: the persisted 'urls'
  checkpointFile,   \* scrape_checkpoint.json: the persisted snapshot
  pc,               \* "idle" | "loop" | "pdf" | "returned" | "crashed"
  tracker,          \* self.tracker.scraped_urls
  scraped_urls,     \* self.scraped_urls
  scraped_content,  \* the result list
  pdf_urls,         \* the PDF worklist
  visited_urls,     \* the session's visited set
  urls_to_visit,    \* the frontier
  last_checkpoint,  \* len(scraped_content) at the last checkpoint save
  pdf_idx,          \* position of the PDF pass in pdf_urls
  \* history variables
  op,               \* the operation performed by the last step
  runs,             \* number of scrape_website runs started
  trackerAtStart,   \* the Tracker set when the current run started
  queued,           \* URLs appended to pdf_urls during the current run
  extracted,        \* URLs passed to PDFProcessor.extract_text in this run
  marked,           \* URLs passed to mark_scraped in the current run
  failedEver,       \* URLs whose fetch failed or timed out, in any run
  scrapedAtCrash,   \* URLs of the pages held in the results when the last run died
  checkpointed,     \* the current run has saved a periodic checkpoint
  prev,             \* how the run before the current one ended
  inst,             \* the ScrapeTracker objects of concurrently living scrapers
  pdfFailedEver,    \* PDF URLs whose extraction failed, in any run (history)
  \* the browser of a scrape_website call
  playwright,       \* self.playwright: "none" | "started" | "stopped"
  browser,          \* self.browser: "none" | "open" | "closed"
  sw,               \* where the scrape_website call stands
  \* the knowledge base
  store,            \* the chunks of the Chroma collection, in insertion order
  ingest,           \* the last add_documents call and what its caller reported
  \* the checkpoint file below the ScrapeCheckpoint object
  ckfile,           \* scrape_checkpoint.json: whether it exists, and its text
  ckobj,            \* the process, its checkpoint_data, the save in progress
  \* the parts of the crawl that run under asyncio.wait_for
  px,               \* a PDFProcessor.extract_text call: its stages
  tasks,            \* the operations awaited by scrape_website, and threads
  page              \* a scrape_page call: where it stands, the pages open

\* The variables of the parts modelled on their own.
parts == <<ckfile, ckobj, px, tasks, page>>

vars == <<trackerFile, checkpointFile, pc, tracker, scraped_urls, scraped_content,
          pdf_urls, visited_urls, urls_to_visit, last_checkpoint, pdf_idx,
          op, runs, trackerAtStart, queued, extracted, marked, failedEver,
          scrapedAtCrash, checkpointed, prev, inst, pdfFailedEver,
          playwright, browser, sw, store, ingest, parts>>

\* The variables of the components a crawl step does not touch.
outside == <<playwright, browser, sw, store, ingest, parts>>

disk == <<trackerFile, checkpointFile>>
memory == <<tracker, scraped_urls, scraped_content, pdf_urls, visited_urls,
            urls_to_visit, last_checkpoint, pdf_idx>>
crawl == <<checkpointFile, pc, memory, runs, trackerAtStart, queued, extracted,
           marked, failedEver, scrapedAtCrash, checkpointed, prev, pdfFailedEver>>

\* All variables of the crawl and of the trackers, op excepted.
scraping == <<trackerFile, crawl, inst>>

\* The variables of the crawl, the browser and the knowledge base.
whole == <<scraping, op, playwright, browser, sw, store, ingest>>

\* ScrapeCheckpoint.__init__: the empty snapshot (last_updated is None)
EmptyCheckpoint ==
  [scraped_content |-> <<>>, pdf_urls |-> <<>>, visited_urls |-> {},
   urls_to_visit |-> <<>>, scraped_count |-> 0, last_updated |-> FALSE]

\* ScrapeCheckpoint.save: the snapshot that replaces the file
Snapshot(content, pdfs, visited, frontier, count) ==
  [scraped_content |-> content, pdf_urls |-> pdfs, visited_urls |-> visited,
   urls_to_visit |-> frontier, scraped_count |-> count, last_updated |-> TRUE]

\* ScrapeCheckpoint.load: the file's snapshot (the empty one without a file).
\* The file holds visited_urls as a JSON array in the arbitrary order of
\* list(set); scrape_website reads it back through set(), so the file is
\* kept here by the set it denotes.
LoadCheckpoint(file) == file

LoadTracker_Empty(file) == {}

\* ScrapeTracker.load / ScrapeTracker.save: 'urls' is written as list(set)
\* and read back through set(); the file is kept by the set it denotes.
LoadTracker(file) == file
SaveTracker(urls) == urls

Range(s) == {s[i] : i \in 1..Len(s)}
DocUrls(content) == {content[i].url : i \in 1..Len(content)}
HtmlDocs(content) == {i \in 1..Len(content) : content[i].type = "html"}
PdfDocs(content) == {i \in 1..Len(content) : content[i].type = "pdf"}

\* The scrapers that may live at the same time, and a scraper that has not
\* been constructed.  stale: the file was written by someone else since this
\* object loaded it (history).
Sessions == {"A", "B"}
NoTracker == [alive |-> FALSE, urls |-> {}, stale |-> FALSE]

NoOp == [kind |-> "none", url |-> <<>>, outcome |-> ""]

\* scrape_website has not been called: no browser, nothing fetched.
NotCalled == [at |-> "idle", error |-> FALSE, pages |-> 0]

\* No add_documents call has been made.
NoIngest ==
  [calls |-> 0, docs |-> <<>>, lookup |-> "none", sent |-> {}, skipped |-> {},
   failed_batch |-> 0, result |-> "none", reported |-> "none"]

\* checkpoint_data: a snapshot with visited_urls as the list `order`
\* (list(visited_urls) in save, [] in the empty snapshot)
ListForm(snapshot, order) == [snapshot EXCEPT !.visited_urls = order]

\* The state after construction; first is the value of the history variable op.
InitWith(first) ==
  /\ trackerFile = {}
  /\ checkpointFile = EmptyCheckpoint
  /\ pc = "idle"
  /\ tracker = {}
  /\ scraped_urls = {}
  /\ scraped_content = <<>>
  /\ pdf_urls = <<>>
  /\ visited_urls = {}
  /\ urls_to_visit = <<>>
  /\ last_checkpoint = 0
  /\ pdf_idx = 0
  /\ op = first
  /\ runs = 0
  /\ trackerAtStart = {}
  /\ queued = {}
  /\ extracted = {}
  /\ marked = {}
  /\ failedEver = {}
  /\ scrapedAtCrash = {}
  /\ checkpointed = FALSE
  /\ prev = [end |-> "none", checkpointed |-> FALSE]
  /\ inst = [i \in Sessions |-> NoTracker]
  /\ pdfFailedEver = {}
  /\ playwright = "none"
  /\ browser = "none"
  /\ sw = NotCalled
  /\ store = <<>>
  /\ ingest = NoIngest
  /\ ckfile = [exists |-> FALSE, text |-> <<>>]
  /\ ckobj = [alive |-> FALSE, data |-> ListForm(EmptyCheckpoint, <<>>), written |-> 0,
              saving |-> FALSE, saved |-> <<>>, new |-> <<>>]
  /\ px = [at |-> "idle"]
  /\ tasks = [at |-> "idle", kind |-> "page", n |-> 0, threads |-> {}]
  /\ page = [at |-> "idle", open |-> 0, n |-> 0, cancelled |-> FALSE, last |-> "none"]

Init == InitWith(NoOp)

(* ------------------------- PDF text and quality ------------------------ *)
\* The text that the extractors get out of a PDF, by its shape: `ones`
\* one-letter words, `longs` six-letter words, `thes` times the word "the",
\* separated by whitespace, with `pad` whitespace characters beyond one
\* space between two words.  _clean_text turns every run of whitespace into
\* one space and strips the ends.
PdfText(ones, longs, thes, pad) ==
  [ones |-> ones, longs |-> longs, thes |-> thes, pad |-> pad]

PdfTexts ==
  {PdfText(0, 10, 10, 0),    \* prose
   PdfText(40, 0, 0, 0),     \* letter by letter
   PdfText(0, 5, 4, 0),      \* exactly 50 characters
   PdfText(5, 0, 0, 100),    \* mostly whitespace
   PdfText(3, 0, 0, 0)}      \* next to nothing

WordCount(t) == t.ones + t.longs + t.thes
WordChars(t) == t.ones + 6 * t.longs + 3 * t.thes
CleanLen(t) == IF WordCount(t) = 0 THEN 0 ELSE WordChars(t) + WordCount(t) - 1
RawLen(t) == CleanLen(t) + t.pad
\* the words of common_words that occur in the cleaned text
FoundCommon(t) == IF t.thes > 0 THEN 1 ELSE 0

Min(a, b) == IF a <= b THEN a ELSE b
Max(a, b) == IF a >= b THEN a ELSE b

\* _calculate_text_quality_score on a cleaned text, in thousandths.  With
\* w words and L characters the score times 20*w*L is an integer.
_calculate_text_quality_score(t) ==
  IF CleanLen(t) < min_text_len THEN 0
  ELSE LET w == WordCount(t)
           L == CleanLen(t)
           spaces == w - 1
           unit == 20 * w * L
           single_penalty == 10 * t.ones * L
           space_penalty == IF 10 * spaces > 3 * L THEN 10 * spaces * w - 3 * L * w ELSE 0
           common_bonus == Min(2 * FoundCommon(t), 4) * w * L
           length_bonus == IF WordChars(t) > 4 * w THEN 2 * w * L ELSE 0
           score == unit - single_penalty - space_penalty + common_bonus + length_bonus
       IN (1000 * Max(0, Min(unit, score))) \div unit

PassesGate_Always(quality_score) == TRUE

\* extract_text: if quality_score < 0.3: return None
PassesGate(quality_score) == ~(quality_score < quality_threshold)

\* extract_text returned None
NoDoc == [found |-> FALSE, quality_score |-> 0, length |-> 0]

\* extract_text from the point where the extractors have produced the text
\* (downloaded: download_pdf returned the bytes)
extract_text(t, downloaded) ==
  IF ~downloaded \/ RawLen(t) < min_text_len THEN NoDoc
  ELSE LET quality_score == _calculate_text_quality_score(t)
       IN IF PassesGate(quality_score)
          THEN [found |-> TRUE, quality_score |-> quality_score, length |-> CleanLen(t)]
          ELSE NoDoc

(* ------------------------ decisions of the code ------------------------ *)
ShouldResume_Inverted(ck) == ck.scraped_content = <<>> /\ ck.last_updated
ShouldResume_TimestampOnly(ck) == ck.last_updated

\* scrape_website: whether the loaded checkpoint is adopted
ShouldResume(ck) == ck.scraped_content # <<>> /\ ck.last_updated

LoopGuard_NoCap(frontier, content) == frontier # <<>>
LoopGuard_OffByOne(frontier, content) == frontier # <<>> /\ Len(content) <= MaxPages

\* scrape_website: the condition of the traversal loop
LoopGuard(frontier, content) == frontier # <<>> /\ Len(content) < MaxPages

\* scrape_website: the skip test on a dequeued, normalized URL
ShouldSkip(current, visited, session, tr) ==
  current \in visited \/ current \in session \/ current \in tr

\* scrape_website: the PDF test on a dequeued URL (include_pdfs = True)
IsPdfTarget(current, original) ==
  \/ is_pdf_url(current) \/ is_pdf_url(original)
  \/ EndsWith(LowerUrl(current), ".pdf") \/ EndsWith(LowerUrl(original), ".pdf")

\* scrape_page: the early returns that come before the page is opened
RejectedByScrapePage(url, session) ==
  \/ _normalize_url(url) \in session
  \/ ~_is_valid_url(url)
  \/ _get_url_depth(url) > MaxDepth

CheckpointDue_Strict(len, last) == len - last > checkpoint_interval

\* scrape_website: whether a checkpoint is written at the end of an iteration
CheckpointDue(len, last) == len - last >= checkpoint_interval

\* scrape_website: the already-scraped test of the PDF pass
PdfAlreadyScraped(tr, pdf_url) == pdf_url \in tr

\* _get_links: the hrefs of the page that pass _is_valid_url
_get_links(u) == {l \in Links(u) : _is_valid_url(l)}

\* scrape_website: the loop over content['links'], in the order given.
\* st = [pdf, su, tr, fr, q, m]: pdf_urls, self.scraped_urls, the Tracker,
\* the frontier, and the history sets queued and marked.
RECURSIVE ProcessLinks(_, _, _)
ProcessLinks(links, st, visited) ==
  IF links = <<>> THEN st
  ELSE
    LET link == Head(links)
        normalized_link == _normalize_url(link)
        next ==
          IF is_pdf_url(link)
          THEN IF link \notin Range(st.pdf) /\ normalized_link \notin st.su
               THEN [st EXCEPT !.pdf = Append(@, link),
                               !.su = @ \cup {normalized_link},
                               !.tr = @ \cup {normalized_link},
                               !.q = @ \cup {link},
                               !.m = @ \cup {normalized_link}]
               ELSE st
          ELSE IF /\ normalized_link \notin visited
                  /\ normalized_link \notin Range(st.fr)
                  /\ normalized_link \notin st.su
                  /\ _is_valid_url(link)
                  /\ _get_url_depth(normalized_link) <= MaxDepth
               THEN [st EXCEPT !.fr = Append(@, normalized_link)]
               ELSE st
    IN ProcessLinks(Tail(links), next, visited)

(* ------------------------------ actions ------------------------------- *)
\* CollegeScraper(...) followed by scrape_website(start_urls) up to the
\* traversal loop: the Tracker and the checkpoint are loaded, the checkpoint
\* is adopted or the seeds are normalized.
Begin(start_urls) ==
  /\ pc \in {"idle", "returned", "crashed"}
  /\ tracker' = LoadTracker(trackerFile)
  /\ scraped_urls' = {}
  /\ LET checkpoint == LoadCheckpoint(checkpointFile) IN
       IF ShouldResume(checkpoint)
       THEN /\ scraped_content' = checkpoint.scraped_content
            /\ pdf_urls' = checkpoint.pdf_urls
            /\ visited_urls' = checkpoint.visited_urls
            /\ urls_to_visit' = checkpoint.urls_to_visit
            /\ op' = [kind |-> "start", url |-> <<>>, outcome |-> "resumed"]
       ELSE /\ scraped_content' = <<>>
            /\ urls_to_visit' = [i \in 1..Len(start_urls) |-> _normalize_url(start_urls[i])]
            /\ visited_urls' = {}
            /\ pdf_urls' = <<>>
            /\ op' = [kind |-> "start", url |-> <<>>, outcome |-> "fresh"]
  /\ last_checkpoint' = Len(scraped_content')
  /\ pdf_idx' = 0
  /\ pc' = "loop"
  /\ trackerAtStart' = tracker'
  /\ queued' = {}
  /\ extracted' = {}
  /\ marked' = {}
  /\ checkpointed' = FALSE
  /\ prev' = [end |-> pc, checkpointed |-> checkpointed]
  /\ UNCHANGED <<disk, failedEver, scrapedAtCrash, inst,
                 pdfFailedEver, outside>>

\* One of the runs that are counted
Start(start_urls) ==
  /\ runs < MaxRuns
  /\ runs' = runs + 1
  /\ Begin(start_urls)

\* A run after the last one counted: scrape_website is called again and
\* again after it has returned.
StartAgain(start_urls) ==
  /\ runs = MaxRuns
  /\ pc = "returned"
  /\ runs' = runs
  /\ Begin(start_urls)

InLoop == pc = "loop" /\ LoopGuard(urls_to_visit, scraped_content)
original_url == Head(urls_to_visit)
current_url == _normalize_url(original_url)

\* The end of a loop iteration that went through scrape_page: the periodic
\* checkpoint.
EndIteration(content, pdfs, visited, frontier) ==
  IF CheckpointDue(Len(content), last_checkpoint)
  THEN /\ checkpointFile' = Snapshot(content, pdfs, visited, frontier, Len(content))
       /\ last_checkpoint' = Len(content)
       /\ checkpointed' = TRUE
  ELSE UNCHANGED <<checkpointFile, last_checkpoint, checkpointed>>

\* The dequeued URL is in the visited set, in self.scraped_urls or in the
\* Tracker: continue.
SkipUrl ==
  /\ InLoop
  /\ ShouldSkip(current_url, visited_urls, scraped_urls, tracker)
  /\ urls_to_visit' = Tail(urls_to_visit)
  /\ op' = [kind |-> "skip", url |-> current_url, outcome |-> ""]
  /\ UNCHANGED <<disk, pc, tracker, scraped_urls, scraped_content, pdf_urls,
                 visited_urls, last_checkpoint, pdf_idx, runs, trackerAtStart,
                 queued, extracted, marked, failedEver, scrapedAtCrash, checkpointed, prev, inst,
                 pdfFailedEver, outside>>

\* The dequeued URL is a PDF: it goes to the worklist and is marked.
QueuePdf ==
  /\ InLoop
  /\ ~ShouldSkip(current_url, visited_urls, scraped_urls, tracker)
  /\ IsPdfTarget(current_url, original_url)
  /\ urls_to_visit' = Tail(urls_to_visit)
  /\ visited_urls' = visited_urls \cup {current_url}
  /\ IF original_url \notin Range(pdf_urls)
     THEN pdf_urls' = Append(pdf_urls, original_url) /\ queued' = queued \cup {original_url}
     ELSE UNCHANGED <<pdf_urls, queued>>
  /\ scraped_urls' = scraped_urls \cup {current_url}
  /\ tracker' = tracker \cup {current_url}
  /\ marked' = marked \cup {current_url}
  /\ op' = [kind |-> "queue_pdf", url |-> original_url, outcome |-> ""]
  /\ UNCHANGED <<disk, pc, scraped_content, last_checkpoint, pdf_idx, runs,
                 trackerAtStart, extracted, failedEver, scrapedAtCrash, checkpointed, prev, inst,
                 pdfFailedEver, outside>>

IsPageTarget ==
  /\ InLoop
  /\ ~ShouldSkip(current_url, visited_urls, scraped_urls, tracker)
  /\ ~IsPdfTarget(current_url, original_url)

\* scrape_page returns None before opening the page.
RejectPage ==
  /\ IsPageTarget
  /\ RejectedByScrapePage(current_url, scraped_urls)
  /\ urls_to_visit' = Tail(urls_to_visit)
  /\ visited_urls' = visited_urls \cup {current_url}
  /\ EndIteration(scraped_content, pdf_urls, visited_urls', urls_to_visit')
  /\ op' = [kind |-> "reject", url |-> current_url, outcome |-> ""]
  /\ UNCHANGED <<trackerFile, pc, tracker, scraped_urls, scraped_content, pdf_urls,
                 pdf_idx, runs, trackerAtStart, queued, extracted, marked,
                 failedEver, scrapedAtCrash, prev, inst,
                 pdfFailedEver, outside>>

IsFetch == IsPageTarget /\ ~RejectedByScrapePage(current_url, scraped_urls)

\* The page is fetched and has more than 50 characters; its links are
\* processed in the order list(set(...)) yields, or not at all when link
\* extraction failed.
FetchedWith(links) ==
  LET doc == [url |-> current_url, type |-> "html", links |-> Range(links)]
      content == Append(scraped_content, doc)
      visited == visited_urls \cup {current_url}
      st == ProcessLinks(links,
                         [pdf |-> pdf_urls,
                          su |-> scraped_urls \cup {_normalize_url(current_url)},
                          tr |-> tracker \cup {current_url},
                          fr |-> Tail(urls_to_visit),
                          q |-> queued,
                          m |-> marked \cup {current_url}],
                         visited)
  IN /\ scraped_content' = content
     /\ visited_urls' = visited
     /\ pdf_urls' = st.pdf
     /\ scraped_urls' = st.su
     /\ tracker' = st.tr
     /\ urls_to_visit' = st.fr
     /\ queued' = st.q
     /\ marked' = st.m
     /\ EndIteration(content, st.pdf, visited, st.fr)
     /\ UNCHANGED <<trackerFile, pc, pdf_idx, runs, trackerAtStart, extracted,
                    failedEver, scrapedAtCrash, prev, inst,
                 pdfFailedEver, outside>>

FetchOk ==
  /\ IsFetch
  /\ \E links \in Orderings(_get_links(current_url)) : FetchedWith(links)
  /\ op' = [kind |-> "fetch", url |-> current_url, outcome |-> "ok"]

\* scrape_page: links = [] stays when _get_links raises or takes more than
\* its 2 seconds
links_after_failure_Late(u) == _get_links(u)

links_after_failure(u) == {}

FetchOkNoLinks ==
  /\ IsFetch
  /\ current_url \in LinkFlaky
  /\ \E links \in Orderings(links_after_failure(current_url)) : FetchedWith(links)
  /\ op' = [kind |-> "fetch", url |-> current_url, outcome |-> "ok_no_links"]

\* scrape_page returns None after opening the page: both loads failed, an
\* exception was caught, or the content has at most 50 characters.
FetchNone ==
  /\ IsFetch
  /\ current_url \in Unreliable
  /\ urls_to_visit' = Tail(urls_to_visit)
  /\ visited_urls' = visited_urls \cup {current_url}
  /\ scraped_urls' = scraped_urls \cup {_normalize_url(current_url)}
  /\ EndIteration(scraped_content, pdf_urls, visited_urls', urls_to_visit')
  /\ \E o \in {"load_failed", "short_content"} :
       /\ op' = [kind |-> "fetch", url |-> current_url, outcome |-> o]
       /\ failedEver' = IF o = "load_failed" THEN failedEver \cup {current_url} ELSE failedEver
  /\ UNCHANGED <<trackerFile, pc, tracker, scraped_content, pdf_urls, pdf_idx, runs,
                 trackerAtStart, queued, extracted, marked, scrapedAtCrash, prev, inst,
                 pdfFailedEver, outside>>

\* asyncio.wait_for(scrape_page, 15 s) raises TimeoutError.
FetchTimeout ==
  /\ IsFetch
  /\ current_url \in Unreliable
  /\ urls_to_visit' = Tail(urls_to_visit)
  /\ visited_urls' = visited_urls \cup {current_url}
  /\ scraped_urls' = scraped_urls \cup {_normalize_url(current_url)}
  /\ EndIteration(scraped_content, pdf_urls, visited_urls', urls_to_visit')
  /\ op' = [kind |-> "fetch", url |-> current_url, outcome |-> "timeout"]
  /\ failedEver' = failedEver \cup {current_url}
  /\ UNCHANGED <<trackerFile, pc, tracker, scraped_content, pdf_urls, pdf_idx, runs,
                 trackerAtStart, queued, extracted, marked, scrapedAtCrash, prev, inst,
                 pdfFailedEver, outside>>

\* The loop condition is false: the finally block releases the browser and
\* the PDF pass begins.
EndTraversal ==
  /\ pc = "loop"
  /\ ~LoopGuard(urls_to_visit, scraped_content)
  /\ pc' = "pdf"
  /\ pdf_idx' = 1
  /\ op' = [kind |-> "end_traversal", url |-> <<>>, outcome |-> ""]
  /\ UNCHANGED <<disk, tracker, scraped_urls, scraped_content, pdf_urls, visited_urls,
                 urls_to_visit, last_checkpoint, runs, trackerAtStart, queued,
                 extracted, marked, failedEver, scrapedAtCrash, checkpointed, prev, inst,
                 pdfFailedEver, outside>>

InPdfPass == pc = "pdf" /\ pdf_idx <= Len(pdf_urls)
pdf_url == pdf_urls[pdf_idx]

PdfSkip ==
  /\ InPdfPass
  /\ PdfAlreadyScraped(tracker, pdf_url)
  /\ pdf_idx' = pdf_idx + 1
  /\ op' = [kind |-> "pdf_skip", url |-> pdf_url, outcome |-> ""]
  /\ UNCHANGED <<disk, pc, tracker, scraped_urls, scraped_content, pdf_urls,
                 visited_urls, urls_to_visit, last_checkpoint, runs, trackerAtStart,
                 queued, extracted, marked, failedEver, scrapedAtCrash, checkpointed, prev, inst,
                 pdfFailedEver, outside>>

\* extract_text returned a document with more than 50 characters.
PdfOk ==
  /\ InPdfPass
  /\ ~PdfAlreadyScraped(tracker, pdf_url)
  /\ \E t \in PdfTexts :
       LET pdf_content == extract_text(t, TRUE) IN
         /\ pdf_content.found
         /\ pdf_content.length > min_text_len
         /\ scraped_content' =
              Append(scraped_content,
                     [url |-> pdf_url, type |-> "pdf", links |-> {},
                      quality_score |-> pdf_content.quality_score])
  /\ tracker' = tracker \cup {pdf_url}
  /\ marked' = marked \cup {pdf_url}
  /\ extracted' = extracted \cup {pdf_url}
  /\ pdf_idx' = pdf_idx + 1
  /\ op' = [kind |-> "extract", url |-> pdf_url, outcome |-> "ok"]
  /\ UNCHANGED <<disk, pc, scraped_urls, pdf_urls, visited_urls, urls_to_visit,
                 last_checkpoint, runs, trackerAtStart, queued, failedEver,
                 scrapedAtCrash, checkpointed, prev, inst,
                 pdfFailedEver, outside>>

\* How an extraction fails in the PDF pass: extract_text returns None
\* (download or text missing: "none"; quality below the threshold:
\* "low_quality"), returns at most 50 characters ("short"), does not end
\* within 30 s, or raises.
PdfFailures == {"none", "low_quality", "short", "timeout", "raised"}

\* extract_text returned None or too little text, timed out after 30 s, or
\* raised: the PDF is marked and the pass continues.
PdfFail ==
  /\ InPdfPass
  /\ ~PdfAlreadyScraped(tracker, pdf_url)
  /\ tracker' = tracker \cup {pdf_url}
  /\ marked' = marked \cup {pdf_url}
  /\ extracted' = extracted \cup {pdf_url}
  /\ pdfFailedEver' = pdfFailedEver \cup {pdf_url}
  /\ pdf_idx' = pdf_idx + 1
  /\ \E o \in PdfFailures :
       /\ op' = [kind |-> "extract", url |-> pdf_url, outcome |-> o]
       /\ o = "low_quality" =>
            \E t \in PdfTexts : RawLen(t) >= min_text_len /\ ~extract_text(t, TRUE).found
       /\ o = "short" =>
            \E t \in PdfTexts :
              extract_text(t, TRUE).found /\ extract_text(t, TRUE).length <= min_text_len
  /\ UNCHANGED <<disk, pc, scraped_urls, scraped_content, pdf_urls, visited_urls,
                 urls_to_visit, last_checkpoint, runs, trackerAtStart, queued,
                 failedEver, scrapedAtCrash, checkpointed, prev, inst, outside>>

\* The end of scrape_website: the final checkpoint, the Tracker save, return.
Finish ==
  /\ pc = "pdf"
  /\ pdf_idx > Len(pdf_urls)
  /\ checkpointFile' = Snapshot(scraped_content, pdf_urls, visited_urls, urls_to_visit,
                                Len(scraped_content))
  /\ trackerFile' = SaveTracker(tracker)
  /\ pc' = "returned"
  /\ op' = [kind |-> "return", url |-> <<>>, outcome |-> ""]
  /\ UNCHANGED <<memory, runs, trackerAtStart, queued, extracted, marked, failedEver,
                 scrapedAtCrash, checkpointed, prev, inst,
                 pdfFailedEver, outside>>

\* The process is interrupted at a suspension point: memory is lost, the
\* files stay.
Crash ==
  /\ pc \in {"loop", "pdf"}
  /\ pc' = "crashed"
  /\ scrapedAtCrash' = {scraped_content[i].url : i \in HtmlDocs(scraped_content)}
  /\ tracker' = {}
  /\ scraped_urls' = {}
  /\ scraped_content' = <<>>
  /\ pdf_urls' = <<>>
  /\ visited_urls' = {}
  /\ urls_to_visit' = <<>>
  /\ last_checkpoint' = 0
  /\ pdf_idx' = 0
  /\ op' = [kind |-> "crash", url |-> <<>>, outcome |-> ""]
  /\ UNCHANGED <<disk, runs, trackerAtStart, queued, extracted, marked, failedEver,
                 checkpointed, prev, inst,
                 pdfFailedEver, outside>>

Next ==
  \/ \E start_urls \in SeedLists : Start(start_urls)
  \/ SkipUrl
  \/ QueuePdf
  \/ RejectPage
  \/ FetchOk
  \/ FetchOkNoLinks
  \/ FetchNone
  \/ FetchTimeout
  \/ EndTraversal
  \/ PdfSkip
  \/ PdfOk
  \/ PdfFail
  \/ Finish
  \/ Crash

Spec == Init /\ [][Next]_vars

(* ------------------- the browser of a scrape_website call -------------- *)
\* The skeleton of scrape_website around the browser: setup() before the
\* try block, the traversal loop inside it, cleanup() in its finally block,
\* the PDF pass and the saves after it.  sw.at is the next thing to run,
\* sw.error says that an exception is on its way out of scrape_website,
\* sw.pages counts the completed iterations of the loop.
notBrowser == <<scraping, op, store, ingest, parts>>

CallScrapeWebsite ==
  /\ sw.at = "idle"
  /\ sw' = [sw EXCEPT !.at = "setup"]
  /\ UNCHANGED <<playwright, browser, notBrowser>>

\* setup(): self.playwright = await async_playwright().start()
StartPlaywright ==
  /\ sw.at = "setup"
  /\ \/ playwright' = "started" /\ sw' = [sw EXCEPT !.at = "launch"]
     \/ playwright' = playwright /\ sw' = [sw EXCEPT !.at = "ended", !.error = TRUE]
  /\ UNCHANGED <<browser, notBrowser>>

\* setup(): self.browser = await self.playwright.chromium.launch(headless=True)
LaunchBrowser ==
  /\ sw.at = "launch"
  /\ \/ browser' = "open" /\ sw' = [sw EXCEPT !.at = "adopt"]
     \/ browser' = browser /\ sw' = [sw EXCEPT !.at = "ended", !.error = TRUE]
  /\ UNCHANGED <<playwright, notBrowser>>

\* The checkpoint is adopted or the seeds are normalized: still before try.
AdoptOrSeed ==
  /\ sw.at = "adopt"
  /\ \/ sw' = [sw EXCEPT !.at = "loop"]
     \/ sw' = [sw EXCEPT !.at = "ended", !.error = TRUE]
  /\ UNCHANGED <<playwright, browser, notBrowser>>

\* One iteration of the traversal loop, its handled errors included.
LoopIteration ==
  /\ sw.at = "loop"
  /\ sw.pages < MaxPages
  /\ sw' = [sw EXCEPT !.pages = @ + 1]
  /\ UNCHANGED <<playwright, browser, notBrowser>>

\* The loop ends (frontier exhausted or max_pages reached), or an error that
\* no except clause of the loop handles leaves the try block.
LeaveLoop ==
  /\ sw.at = "loop"
  /\ \E raised \in BOOLEAN : sw' = [sw EXCEPT !.at = "close", !.error = raised]
  /\ UNCHANGED <<playwright, browser, notBrowser>>

\* finally: cleanup(): if self.browser: await self.browser.close()
CloseBrowser ==
  /\ sw.at = "close"
  /\ \/ browser' = "closed" /\ sw' = [sw EXCEPT !.at = "stop"]
     \/ browser' = browser /\ sw' = [sw EXCEPT !.at = "ended", !.error = TRUE]
  /\ UNCHANGED <<playwright, notBrowser>>

\* cleanup(): if self.playwright: await self.playwright.stop(); then the
\* pending exception goes on, or the PDF pass begins.
StopPlaywright ==
  /\ sw.at = "stop"
  /\ \/ /\ playwright' = "stopped"
        /\ sw' = [sw EXCEPT !.at = IF sw.error THEN "ended" ELSE "pdf"]
     \/ playwright' = playwright /\ sw' = [sw EXCEPT !.at = "ended", !.error = TRUE]
  /\ UNCHANGED <<browser, notBrowser>>

\* The PDF pass, the final saves, return.
PdfPassAndReturn ==
  /\ sw.at = "pdf"
  /\ sw' = [sw EXCEPT !.at = "ended"]
  /\ UNCHANGED <<playwright, browser, notBrowser>>

BrowserNext ==
  \/ CallScrapeWebsite
  \/ StartPlaywright
  \/ LaunchBrowser
  \/ AdoptOrSeed
  \/ LoopIteration
  \/ LeaveLoop
  \/ CloseBrowser
  \/ StopPlaywright
  \/ PdfPassAndReturn

SpecBrowser == Init /\ [][BrowserNext]_vars

(* --------------------------- the knowledge base ------------------------ *)
\* RAGSystem.add_documents against the persistent Chroma collection.  The
\* store is the sequence of stored chunks in storage order, kept as runs:
\* [source, chunks] stands for that many consecutive chunks of one source.
\* A document is given by its source URL and the number of chunks its text
\* splits into (0: the text is empty or blank).
Sources == {"a", "b"}
ChunkCounts == {0, 1, 10000}
Doc(src, n) == [source |-> src, chunks |-> n]

DocLists ==
  {<<Doc(src, n)>> : src \in Sources, n \in ChunkCounts}
    \cup {<<Doc("a", 1), Doc("a", 1)>>, <<Doc("a", 10000), Doc("b", 1)>>}

StoredSources(st) == {st[i].source : i \in 1..Len(st)}

\* collection.get(limit=...): the sources of the first `room` chunks
RECURSIVE SourcesWithin(_, _)
SourcesWithin(st, room) ==
  IF st = <<>> \/ room <= 0 THEN {}
  ELSE {Head(st).source} \cup SourcesWithin(Tail(st), room - Head(st).chunks)

\* get_existing_sources: an error of the lookup is caught and gives set()
get_existing_sources(st, lookup) ==
  IF lookup = "ok" THEN SourcesWithin(st, get_limit) ELSE {}

\* The documents that add_documents keeps: non-empty text, source not among
\* the existing sources (skip_duplicates = True).
RECURSIVE KeptDocs(_, _)
KeptDocs(docs, existing) ==
  IF docs = <<>> THEN <<>>
  ELSE LET d == Head(docs)
           rest == KeptDocs(Tail(docs), existing)
       IN IF d.chunks > 0 /\ d.source \notin existing THEN <<d>> \o rest ELSE rest

SkippedSources(docs, existing) ==
  {docs[i].source : i \in {j \in 1..Len(docs) : docs[j].chunks > 0 /\ docs[j].source \in existing}}

RECURSIVE TotalChunks(_)
TotalChunks(docs) == IF docs = <<>> THEN 0 ELSE Head(docs).chunks + TotalChunks(Tail(docs))

\* range(0, total_chunks, batch_size): the number of batches
BatchCount(total) == (total + batch_size - 1) \div batch_size

\* The first n chunks of the chunk list of the kept documents
RECURSIVE FirstChunks(_, _)
FirstChunks(docs, n) ==
  IF docs = <<>> \/ n <= 0 THEN <<>>
  ELSE LET d == Head(docs)
           k == IF d.chunks <= n THEN d.chunks ELSE n
       IN <<Doc(d.source, k)>> \o FirstChunks(Tail(docs), n - k)

AddOutcome_Swallowed(failed_batch) == "returned"

\* add_documents: the except clause prints and re-raises
AddOutcome(failed_batch) == IF failed_batch # 0 THEN "raised" ELSE "returned"

\* scrape_college_website_sync / process_and_add: what the caller reports
CallerReport(result) == IF result = "raised" THEN "error" ELSE "success"

\* One add_documents call from start to end; failed_batch is the batch whose
\* write raises (0: none does).
AddDocuments(docs) ==
  /\ ingest.calls < MaxCalls
  /\ \E lookup \in {"ok", "error"} :
       LET existing == get_existing_sources(store, lookup)
           documents == KeptDocs(docs, existing)
           batches == BatchCount(TotalChunks(documents))
       IN \E failed_batch \in 0..batches :
            LET written == IF failed_batch = 0 THEN TotalChunks(documents)
                           ELSE (failed_batch - 1) * batch_size
                result == AddOutcome(failed_batch)
            IN /\ store' = store \o FirstChunks(documents, written)
               /\ ingest' = [calls |-> ingest.calls + 1, docs |-> docs, lookup |-> lookup,
                             sent |-> {documents[i].source : i \in 1..Len(documents)},
                             skipped |-> SkippedSources(docs, existing),
                             failed_batch |-> failed_batch, result |-> result,
                             reported |-> CallerReport(result)]
  /\ UNCHANGED <<scraping, op, playwright, browser, sw, parts>>

IngestNext == \E docs \in DocLists : AddDocuments(docs)

SpecIngest == Init /\ [][IngestNext]_vars

(* --------------------------- URL normalization ------------------------- *)
\* The URL strings given to _normalize_url: a host followed by up to
\* MaxUrlLen tokens.
UrlTokens == {"/", "#", "p1", "P2", "f"}

RECURSIVE TokenSeqs(_)
TokenSeqs(n) ==
  IF n = 0 THEN {<<>>}
  ELSE LET shorter == TokenSeqs(n - 1)
       IN shorter \cup {Append(t, x) : t \in {q \in shorter : Len(q) = n - 1}, x \in UrlTokens}

UrlInputs == {<<"h">> \o t : t \in TokenSeqs(MaxUrlLen)}

UrlInit == \E u \in UrlInputs : InitWith([kind |-> "url", url |-> u, outcome |-> ""])

\* self._normalize_url(url), applied to the URL or to an earlier result
NormalizeUrl ==
  /\ op.kind \in {"url", "normalize"}
  /\ op' = [kind |-> "normalize", url |-> _normalize_url(op.url), outcome |-> ""]
  /\ UNCHANGED <<scraping, outside>>

SpecUrl == UrlInit /\ [][NormalizeUrl]_vars

(* ------------------ an uninterrupted crawl of a page graph -------------- *)
\* scrape_website on the second part of the site: every fetch succeeds and
\* the process is not interrupted.
GraphNext ==
  \/ Start(GraphSeeds)
  \/ FetchOk
  \/ EndTraversal
  \/ Finish

SpecGraph == Init /\ [][GraphNext]_vars

\* scrape_website called again and again on the second part of the site,
\* with the same parameters.  After a return the next call is made in the
\* end, and a run whose traversal is over goes through its PDF pass and
\* returns.  (Nothing is assumed about the fetches: what is asked is what
\* follows the first return.)
SpecRerun ==
  /\ Init
  /\ [][Start(GraphSeeds) \/ StartAgain(GraphSeeds) \/ FetchOk \/ EndTraversal
          \/ Finish]_vars
  /\ WF_vars(Start(GraphSeeds)) /\ WF_vars(StartAgain(GraphSeeds))
  /\ WF_vars(EndTraversal) /\ WF_vars(Finish)

\* The pages that can be reached from a set of pages through the links that
\* _get_links returns, within max_depth.
RECURSIVE ReachableFrom(_)
ReachableFrom(S) ==
  LET more == {_normalize_url(l) : l \in UNION {_get_links(u) : u \in S}}
      next == S \cup {u \in more : _get_url_depth(u) <= MaxDepth}
  IN IF next = S THEN S ELSE ReachableFrom(next)

(* ------------------- the Tracker under several scrapers ---------------- *)
\* The URLs that the scrapers of this specification mark.
TrackedUrls == {Base, U("p1"), <<"h", "/", "D", ".PDF">>}

\* Every other living tracker object now holds an outdated copy of the file.
Outdate(i) ==
  [j \in Sessions |->
     IF j # i /\ inst[j].alive THEN [inst[j] EXCEPT !.stale = TRUE] ELSE inst[j]]

\* ScrapeTracker.__init__ in CollegeScraper.__init__: load()
TrackerNew(i) ==
  /\ ~inst[i].alive
  /\ inst' = [inst EXCEPT ![i] = [alive |-> TRUE, urls |-> LoadTracker(trackerFile),
                                  stale |-> FALSE]]
  /\ op' = [kind |-> "tracker_load", url |-> <<>>, outcome |-> i]
  /\ UNCHANGED <<trackerFile, crawl, outside>>

\* ScrapeTracker.mark_scraped
TrackerMark(i, u) ==
  /\ inst[i].alive
  /\ inst' = [inst EXCEPT ![i].urls = @ \cup {u}]
  /\ op' = [kind |-> "tracker_mark", url |-> u, outcome |-> i]
  /\ UNCHANGED <<trackerFile, crawl, outside>>

\* ScrapeTracker.save at the end of scrape_website
TrackerSave(i) ==
  /\ inst[i].alive
  /\ trackerFile' = SaveTracker(inst[i].urls)
  /\ inst' = Outdate(i)
  /\ op' = [kind |-> "tracker_save", url |-> <<>>,
            outcome |-> IF inst[i].stale THEN "stale" ELSE "current"]
  /\ UNCHANGED <<crawl, outside>>

\* The scraper object goes away (return to the caller, or interruption).
TrackerExit(i) ==
  /\ inst[i].alive
  /\ inst' = [inst EXCEPT ![i] = NoTracker]
  /\ op' = [kind |-> "tracker_exit", url |-> <<>>, outcome |-> i]
  /\ UNCHANGED <<trackerFile, crawl, outside>>

\* ScrapeTracker.clear: the explicit full reset
TrackerClear(i) ==
  /\ inst[i].alive
  /\ trackerFile' = {}
  /\ inst' = [Outdate(i) EXCEPT ![i].urls = {}]
  /\ op' = [kind |-> "tracker_clear", url |-> <<>>, outcome |-> i]
  /\ UNCHANGED <<crawl, outside>>

\* fix_and_rescrape.clear_database: the test that selects the URLs to drop
IsPdfEntry(u) == EndsWith(LowerUrl(u), ".pdf") \/ HasToken(LowerUrl(u), ".pdf")

\* fix_and_rescrape.clear_database: the tracker file is rewritten without
\* its PDF URLs.
ClearDatabase ==
  /\ trackerFile' = {u \in trackerFile : ~IsPdfEntry(u)}
  /\ inst' = [j \in Sessions |->
                IF inst[j].alive THEN [inst[j] EXCEPT !.stale = TRUE] ELSE inst[j]]
  /\ op' = [kind |-> "clear_database", url |-> <<>>, outcome |-> ""]
  /\ UNCHANGED <<crawl, outside>>

TrackerNext ==
  \/ \E i \in Sessions : TrackerNew(i)
  \/ \E i \in Sessions, u \in TrackedUrls : TrackerMark(i, u)
  \/ \E i \in Sessions : TrackerSave(i)
  \/ \E i \in Sessions : TrackerExit(i)
  \/ \E i \in Sessions : TrackerClear(i)
  \/ ClearDatabase

SpecTracker == Init /\ [][TrackerNext]_vars

(* --------------------------- the checkpoint file ------------------------ *)
\* json.dump writes the members of checkpoint_data in the order of the dict
\* literal of save; the text of the file is kept as the values written so far.
ToJson(data) ==
  <<data.scraped_content, data.pdf_urls, data.visited_urls, data.urls_to_visit,
    data.scraped_count, data.last_updated>>

\* ScrapeCheckpoint.load: without a file the defaults of __init__ stay; with
\* a file json.load either parses the whole object or raises, and the
\* handler puts the empty snapshot back.
JsonLoad(file) ==
  LET empty == ListForm(EmptyCheckpoint, <<>>)
      t == file.text
  IN IF file.exists /\ Len(t) = Len(ToJson(empty))
     THEN [scraped_content |-> t[1], pdf_urls |-> t[2], visited_urls |-> t[3],
           urls_to_visit |-> t[4], scraped_count |-> t[5], last_updated |-> t[6]]
     ELSE empty

\* What scrape_website makes of checkpoint_data: set(checkpoint['visited_urls'])
AsSnapshot(data) == [data EXCEPT !.visited_urls = Range(@)]

\* open(CHECKPOINT_FILE, 'w'): the file exists and is empty
OpenForWrite_Append(file) == [exists |-> TRUE, text |-> file.text]

OpenForWrite(file) == [exists |-> TRUE, text |-> <<>>]

\* The arguments of the save calls
SaveArgs ==
  {Snapshot(<<"doc1">>, <<>>, {"u1"}, <<"u2", "u3">>, 1),
   Snapshot(<<"doc1", "doc2">>, <<"f1">>, {"u1", "u2"}, <<"u3">>, 2),
   Snapshot(<<"doc1", "doc2", "doc3">>, <<"f1">>, {"u1", "u2", "u3"}, <<>>, 3)}

\* A process constructs its ScrapeCheckpoint: __init__ and load
CkNew ==
  /\ ~ckobj.alive
  /\ ckobj' = [ckobj EXCEPT !.alive = TRUE, !.data = JsonLoad(ckfile)]
  /\ UNCHANGED <<ckfile, whole, px, tasks, page>>

\* save, up to the open call: checkpoint_data is replaced and the file is
\* truncated.  new holds the arguments of a save that was started and has
\* not returned, saved those of the last save that returned (history).
CkSaveOpen(args) ==
  /\ ckobj.alive /\ ~ckobj.saving
  /\ \E order \in Orderings(args.visited_urls) :
       ckobj' = [ckobj EXCEPT !.data = ListForm(args, order), !.written = 0,
                              !.saving = TRUE, !.new = <<args>>]
  /\ ckfile' = OpenForWrite(ckfile)
  /\ UNCHANGED <<whole, px, tasks, page>>

\* json.dump: the next member reaches the file
CkWrite ==
  /\ ckobj.alive /\ ckobj.saving
  /\ ckobj.written < Len(ToJson(ckobj.data))
  /\ ckfile' = [ckfile EXCEPT !.text = Append(@, ToJson(ckobj.data)[ckobj.written + 1])]
  /\ ckobj' = [ckobj EXCEPT !.written = @ + 1]
  /\ UNCHANGED <<whole, px, tasks, page>>

\* The with block is left and save returns.
CkClose ==
  /\ ckobj.alive /\ ckobj.saving
  /\ ckobj.written = Len(ToJson(ckobj.data))
  /\ ckobj' = [ckobj EXCEPT !.saving = FALSE, !.saved = ckobj.new, !.new = <<>>]
  /\ UNCHANGED <<ckfile, whole, px, tasks, page>>

\* The process dies; what is in the file stays.
CkCrash ==
  /\ ckobj.alive
  /\ ckobj' = [ckobj EXCEPT !.alive = FALSE, !.saving = FALSE, !.written = 0,
                            !.data = ListForm(EmptyCheckpoint, <<>>)]
  /\ UNCHANGED <<ckfile, whole, px, tasks, page>>

CheckpointNext ==
  \/ CkNew
  \/ \E args \in SaveArgs : CkSaveOpen(args)
  \/ CkWrite
  \/ CkClose
  \/ CkCrash

SpecCheckpoint == Init /\ [][CheckpointNext]_vars

(* ------------------- the stages of PDFProcessor.extract_text ------------ *)
\* if not text or len(text) < 50, on the text as extracted
TooShort_Always(t) == TRUE

TooShort(t) == RawLen(t) < min_text_len

\* _is_garbled_text on the cleaned text.  The words of a PdfText stand in
\* the order ones, longs, thes, so three single letters in a row after a
\* space need three one-letter words and a fourth word; of the common
\* patterns only "the" and two adjacent words of three letters can occur.
_is_garbled_text(t) ==
  LET w == WordCount(t)
      L == CleanLen(t)
      pattern_matches == (IF t.thes > 0 THEN 1 ELSE 0)
                           + (IF t.longs + t.thes >= 2 THEN 1 ELSE 0)
  IN \/ L < min_text_len
     \/ w < 10
     \/ 10 * t.ones > 3 * w
     \/ (t.ones >= 3 /\ w >= 4 /\ 10 * (w - 1) > 4 * L)
     \/ WordChars(t) < 2 * w
     \/ pattern_matches < 2

\* extract_text is called: download_pdf returns the bytes only of a response
\* that starts with %PDF.  input holds what each extractor gets out of the
\* bytes and whether the OCR libraries are installed; ran lists the
\* extractors that have run (history).
PxCall ==
  /\ px.at \in {"idle", "done"}
  /\ \E download \in {"pdf", "not_pdf", "failed"}, ocr_available \in BOOLEAN,
        plumber, pypdf2, ocr \in PdfTexts \cup {PdfText(0, 0, 0, 0)} :
       px' = [at |-> IF download = "pdf" THEN "pdfplumber" ELSE "done",
              input |-> [download |-> download, ocr_available |-> ocr_available,
                         pdfplumber |-> plumber, pypdf2 |-> pypdf2, ocr |-> ocr],
              ran |-> <<>>, text |-> PdfText(0, 0, 0, 0), used_pdfplumber |-> FALSE,
              found |-> FALSE]
  /\ UNCHANGED <<whole, ckfile, ckobj, tasks, page>>

\* extract_text_pdfplumber, and the test that follows it
PxPlumber ==
  /\ px.at = "pdfplumber"
  /\ LET text == px.input.pdfplumber
     IN px' = [px EXCEPT !.text = text, !.used_pdfplumber = TRUE,
                         !.ran = Append(@, "pdfplumber"),
                         !.at = IF TooShort(text) THEN "pypdf2" ELSE "check"]
  /\ UNCHANGED <<whole, ckfile, ckobj, tasks, page>>

\* the fallback: extract_text_pypdf2, and the test that follows it
PxPyPdf2 ==
  /\ px.at = "pypdf2"
  /\ LET text == px.input.pypdf2
     IN px' = [px EXCEPT !.text = text, !.used_pdfplumber = FALSE,
                         !.ran = Append(@, "pypdf2"),
                         !.at = IF TooShort(text) /\ px.input.ocr_available
                                THEN "ocr" ELSE "check"]
  /\ UNCHANGED <<whole, ckfile, ckobj, tasks, page>>

\* extract_text_ocr: its text is taken if it has more than 50 characters
PxOcr ==
  /\ px.at = "ocr"
  /\ px' = [px EXCEPT !.text = IF RawLen(px.input.ocr) > min_text_len
                               THEN px.input.ocr ELSE @,
                      !.ran = Append(@, "ocr"), !.at = "check"]
  /\ UNCHANGED <<whole, ckfile, ckobj, tasks, page>>

\* the length test, _clean_text and the garbled test
PxCheck ==
  /\ px.at = "check"
  /\ px' = [px EXCEPT !.at = IF TooShort(px.text) THEN "done"
                             ELSE IF _is_garbled_text(px.text) /\ px.used_pdfplumber
                                  THEN "alternative" ELSE "gate"]
  /\ UNCHANGED <<whole, ckfile, ckobj, tasks, page>>

\* extract_text_pypdf2 as the alternative to a garbled pdfplumber text
PxAlternative ==
  /\ px.at = "alternative"
  /\ LET alt_text == px.input.pypdf2
         taken == CleanLen(alt_text) >= min_text_len /\ ~_is_garbled_text(alt_text)
     IN px' = [px EXCEPT !.text = IF taken THEN alt_text ELSE @,
                         !.used_pdfplumber = IF taken THEN FALSE ELSE @,
                         !.ran = Append(@, "pypdf2"), !.at = "gate"]
  /\ UNCHANGED <<whole, ckfile, ckobj, tasks, page>>

\* the quality gate and the return
PxGate ==
  /\ px.at = "gate"
  /\ px' = [px EXCEPT !.found = PassesGate(_calculate_text_quality_score(px.text)),
                      !.at = "done"]
  /\ UNCHANGED <<whole, ckfile, ckobj, tasks, page>>

SpecPdf ==
  Init /\ [][PxCall \/ PxPlumber \/ PxPyPdf2 \/ PxOcr \/ PxCheck \/ PxAlternative
               \/ PxGate]_vars

(* ------------- the operations that scrape_website waits for ------------- *)
\* tasks.at: "idle" between two operations, "awaiting" inside
\* asyncio.wait_for.  tasks.kind: the operation awaited, or the last one.
\* tasks.n counts the operations started.  tasks.threads: the extract_text
\* calls still running in a worker thread that nobody awaits any more.
\* The traversal comes before the PDF pass: no page fetch after a PDF.
TaskStart(kind) ==
  /\ tasks.at = "idle" /\ tasks.n < MaxOps
  /\ kind = "page" => tasks.kind = "page"
  /\ tasks' = [tasks EXCEPT !.at = "awaiting", !.kind = kind, !.n = @ + 1]
  /\ UNCHANGED <<whole, ckfile, ckobj, px, page>>

\* The operation ends within its timeout, with a result or an exception.
TaskDone ==
  /\ tasks.at = "awaiting"
  /\ tasks' = [tasks EXCEPT !.at = "idle"]
  /\ UNCHANGED <<whole, ckfile, ckobj, px, page>>

\* 15 seconds have passed: wait_for cancels the scrape_page task and waits
\* until the task has ended before it raises TimeoutError.
PageTimeout ==
  /\ tasks.at = "awaiting" /\ tasks.kind = "page"
  /\ tasks' = [tasks EXCEPT !.at = "idle"]
  /\ UNCHANGED <<whole, ckfile, ckobj, px, page>>

\* 30 seconds have passed: wait_for cancels the future of asyncio.to_thread;
\* the worker thread cannot be cancelled and goes on with extract_text.
PdfTimeout ==
  /\ tasks.at = "awaiting" /\ tasks.kind = "pdf"
  /\ tasks' = [tasks EXCEPT !.at = "idle", !.threads = @ \cup {tasks.n}]
  /\ UNCHANGED <<whole, ckfile, ckobj, px, page>>

\* An extract_text call that was left behind comes to its end.
ThreadEnds(i) ==
  /\ i \in tasks.threads
  /\ tasks' = [tasks EXCEPT !.threads = @ \ {i}]
  /\ UNCHANGED <<whole, ckfile, ckobj, px, page>>

SpecTasks ==
  Init /\ [][(\E kind \in {"page", "pdf"} : TaskStart(kind)) \/ TaskDone \/ PageTimeout
               \/ PdfTimeout \/ (\E i \in 1..MaxOps : ThreadEnds(i))]_vars

(* ------------------------ the page of scrape_page ----------------------- *)
\* page.at: the await at which the scrape_page call stands ("idle": no call
\* is running; scrape_website is between two frontier URLs).  page.open: the
\* pages open in the browser.  page.n counts the calls, page.cancelled says
\* that wait_for has cancelled the call, page.last is how the last call
\* ended (history).
\* scrape_page is called and browser.new_page() returns the page.
PageOpen ==
  /\ page.at = "idle" /\ page.n < MaxOps
  /\ page' = [page EXCEPT !.at = "goto", !.open = @ + 1, !.n = @ + 1,
                          !.cancelled = FALSE]
  /\ UNCHANGED <<whole, ckfile, ckobj, px, tasks>>

\* page.goto(wait_until='domcontentloaded') and the 0.3 s wait: on a timeout
\* or an exception the load is tried again.
FirstGoto(ok) ==
  /\ page.at = "goto"
  /\ page' = [page EXCEPT !.at = IF ok THEN "extract" ELSE "goto_again"]
  /\ UNCHANGED <<whole, ckfile, ckobj, px, tasks>>

\* page.goto(wait_until='load'): when it fails, the bare except closes the
\* page and scrape_page returns None.
SecondGoto(ok) ==
  /\ page.at = "goto_again"
  /\ page' = IF ok THEN [page EXCEPT !.at = "extract"]
             ELSE [page EXCEPT !.at = "idle", !.open = @ - 1, !.last = "load_failure"]
  /\ UNCHANGED <<whole, ckfile, ckobj, px, tasks>>

\* _extract_text_content: an exception goes to the handler of scrape_page,
\* which closes the page.
ExtractContent(ok) ==
  /\ page.at = "extract"
  /\ page' = IF ok THEN [page EXCEPT !.at = "links"]
             ELSE [page EXCEPT !.at = "idle", !.open = @ - 1, !.last = "exception"]
  /\ UNCHANGED <<whole, ckfile, ckobj, px, tasks>>

\* wait_for(_get_links, 2.0): whatever comes of it, scrape_page goes on.
GetLinks ==
  /\ page.at = "links"
  /\ page' = [page EXCEPT !.at = "close"]
  /\ UNCHANGED <<whole, ckfile, ckobj, px, tasks>>

\* page.close() and the return, with the content or with None
ClosePage(enough) ==
  /\ page.at = "close"
  /\ page' = [page EXCEPT !.at = "idle", !.open = @ - 1,
                          !.last = IF enough THEN "success" ELSE "too_short"]
  /\ UNCHANGED <<whole, ckfile, ckobj, px, tasks>>

\* The 15 seconds of wait_for are over: CancelledError is raised at the await
\* where scrape_page stands.  It is not an Exception: only the bare excepts
\* around the second goto and around the link extraction catch it, the first
\* closing the page, the second going on.  Elsewhere it leaves scrape_page
\* with the page open; raised inside page.close() it leaves the page open or
\* closed (closed_anyway).
PageCancelled(closed_anyway) ==
  /\ page.at \notin {"idle"} /\ ~page.cancelled
  /\ page' =
       IF page.at = "links" THEN [page EXCEPT !.at = "close", !.cancelled = TRUE]
       ELSE [page EXCEPT !.at = "idle", !.cancelled = TRUE, !.last = "cancelled",
                         !.open = IF \/ page.at = "goto_again"
                                     \/ (page.at = "close" /\ closed_anyway)
                                  THEN @ - 1 ELSE @]
  /\ UNCHANGED <<whole, ckfile, ckobj, px, tasks>>

SpecPage ==
  Init /\ [][PageOpen \/ (\E ok \in BOOLEAN : FirstGoto(ok))
               \/ (\E ok \in BOOLEAN : SecondGoto(ok))
               \/ (\E ok \in BOOLEAN : ExtractContent(ok)) \/ GetLinks
               \/ (\E enough \in BOOLEAN : ClosePage(enough))
               \/ (\E closed_anyway \in BOOLEAN : PageCancelled(closed_anyway))]_vars

TypeOK ==
  /\ pc \in {"idle", "loop", "pdf", "returned", "crashed"}
  /\ runs \in 0..MaxRuns

(* ------------------------------- claims ------------------------------- *)
Returned == pc = "returned"

\* C1: when scrape_website returns, every URL that was put on the PDF
\* worklist during the run and was not in the Tracker when the run started
\* has been passed to the PDF extractor.
C1_WorklistDrained ==
  Returned => \A u \in queued : u \notin trackerAtStart => u \in extracted

\* C2: the list returned by a run holds no two documents whose URLs have the
\* same normalized form.
C2_NoDuplicateDocuments ==
  Returned =>
    \A i, j \in 1..Len(scraped_content) :
      i # j => _normalize_url(scraped_content[i].url) # _normalize_url(scraped_content[j].url)

\* C3: a URL taken from the frontier whose normalized form is in the Tracker
\* or in the visited set is never fetched, and a PDF whose normalized URL was
\* in the Tracker when the session started is never extracted.
C3_NoRework ==
  [][/\ op'.kind = "fetch" =>
          _normalize_url(Head(urls_to_visit)) \notin (tracker \cup visited_urls)
     /\ op'.kind = "extract" => _normalize_url(op'.url) \notin trackerAtStart]_vars

ResumedAfterInterrupt ==
  op.kind = "start" /\ prev.end = "crashed" /\ prev.checkpointed

Unsaved ==
  Range(scraped_content) \ Range(LoadCheckpoint(checkpointFile).scraped_content)

C7_CompletedCheckpointIgnored ==
  [][pc = "returned" /\ pc' = "loop" => op'.outcome = "fresh"]_vars

\* C7 (amended): the final checkpoint of a completed crawl is kept.  A later
\* run adopts the completed crawl's results, worklist, visited set and
\* frontier whenever that crawl returned at least one document, and starts
\* from its normalized seed URLs only when it returned none.
C7_CompletedCheckpointAdopted ==
  [][pc = "returned" /\ pc' = "loop" =>
       IF scraped_content # <<>>
       THEN /\ op'.outcome = "resumed"
            /\ scraped_content' = scraped_content
            /\ pdf_urls' = pdf_urls
            /\ visited_urls' = visited_urls
            /\ urls_to_visit' = urls_to_visit
       ELSE /\ op'.outcome = "fresh"
            /\ scraped_content' = <<>>
            /\ visited_urls' = {}
            /\ \E start_urls \in SeedLists :
                 urls_to_visit' = [i \in 1..Len(start_urls) |-> _normalize_url(start_urls[i])]]_vars

C7_Witness ==
  /\ op.kind = "start"
  /\ prev.end = "returned"
  /\ op.outcome = "resumed"
  /\ scraped_content # <<>>

\* C8: a fetch that times out or fails marks the URL in the Tracker, and no
\* URL whose fetch timed out or failed, in this session or an earlier one,
\* is fetched again.
C8_FailedFetchTracked ==
  /\ [][op'.kind = "fetch" /\ op'.outcome \in {"load_failed", "timeout"} =>
          op'.url \in tracker']_vars
  /\ [][op'.kind = "fetch" => op'.url \notin failedEver]_vars

\* C9: once the process of a session has ended, by return or by
\* interruption, every URL the session marked is in the Tracker that the
\* next process loads.
C9_MarksDurable ==
  pc \in {"returned", "crashed"} => marked \subseteq LoadTracker(trackerFile)

\* C10 (as stated): apart from the explicit full reset, no step of any
\* session (sequential or overlapping) and no maintenance operation removes
\* a URL from the persisted Tracker.
C10_TrackerOnlyGrows ==
  [][op'.kind # "tracker_clear" => trackerFile \subseteq trackerFile']_vars

\* C10 (amended): a save by a scraper whose Tracker copy is current (nobody
\* else wrote the file since the scraper loaded it, as in sessions that do
\* not overlap) never removes a URL from the persisted Tracker, and loading,
\* marking and leaving do not change the file; clear_database removes
\* exactly the URLs that contain ".pdf" in any case and keeps every other.
C10_TrackerGrowsSequentially ==
  [][/\ op'.kind = "tracker_save" /\ op'.outcome = "current" =>
          trackerFile \subseteq trackerFile'
     /\ op'.kind \in {"tracker_load", "tracker_mark", "tracker_exit"} =>
          trackerFile' = trackerFile
     /\ op'.kind = "clear_database" =>
          /\ trackerFile' \subseteq trackerFile
          /\ \A u \in trackerFile : u \in trackerFile' <=> ~HasToken(LowerUrl(u), ".pdf")]_vars

C10_Witness ==
  /\ op.kind = "tracker_save"
  /\ op.outcome = "current"
  /\ trackerFile = TrackedUrls
  /\ \E i \in Sessions : inst[i].alive /\ inst[i].stale

\* C11: every URL in the Tracker was attempted: whenever a step of a run
\* puts a URL into the Tracker, that step fetches the page of that URL or
\* passes that URL to the PDF extractor; no URL is marked only because it was
\* discovered or queued.
C11_TrackedWasAttempted ==
  [][op'.kind # "start" =>
       \A u \in tracker' \ tracker : op'.kind \in {"fetch", "extract"} /\ op'.url = u]_vars

\* C12: when PDF extraction returns None, times out or raises, the PDF pass
\* marks that PDF's URL in the Tracker and moves on to the next worklist
\* entry, and a PDF whose extraction failed, in this run or an earlier one,
\* is never passed to the extractor again.
C12_FailedPdfNotRetried ==
  /\ [][op'.kind = "extract" /\ op'.outcome \in {"none", "low_quality", "timeout", "raised"} =>
          /\ op'.url \in tracker'
          /\ pdf_idx' = pdf_idx + 1
          /\ pc' = "pdf"]_vars
  /\ [][op'.kind = "extract" => op'.url \notin pdfFailedEver]_vars

\* C13: the frontier never holds a URL whose depth (its number of path
\* segments minus the base URL's) exceeds max_depth, whatever the seeds, the
\* frontier and the visited set.
C13_FrontierWithinDepth ==
  \A i \in 1..Len(urls_to_visit) : _get_url_depth(urls_to_visit[i]) <= MaxDepth

FirstRunReturned == Returned /\ runs = 1

GraphPages == ReachableFrom(Range(GraphSeeds))

\* C14 (as stated): on a site whose reachable pages outnumber max_pages (all
\* fetchable, no PDFs, empty Tracker, no checkpoint) the crawl returns exactly
\* max_pages documents, and every reachable URL that was not fetched is in
\* the frontier saved in the final checkpoint and is not in the Tracker.
C14_UnfetchedInFrontier ==
  FirstRunReturned =>
    /\ Len(scraped_content) = MaxPages
    /\ \A u \in GraphPages \ DocUrls(scraped_content) :
         /\ u \in Range(LoadCheckpoint(checkpointFile).urls_to_visit)
         /\ u \notin LoadTracker(trackerFile)

\* C14 (amended): the crawl returns exactly max_pages documents; the final
\* checkpoint holds the returned documents and the final frontier; every link
\* found on a fetched page leads to a fetched page or to a URL of that
\* frontier; the frontier holds only reachable URLs that were not fetched;
\* and no URL that was not fetched is in the Tracker.  (A reachable page
\* whose only links are on pages that were not fetched is in neither.)
C14_DiscoveredInFrontier ==
  FirstRunReturned =>
    LET saved == LoadCheckpoint(checkpointFile)
        fetched == DocUrls(scraped_content)
    IN /\ Len(scraped_content) = MaxPages
       /\ saved.scraped_content = scraped_content
       /\ saved.urls_to_visit = urls_to_visit
       /\ \A i \in 1..Len(scraped_content) : \A l \in scraped_content[i].links :
            _normalize_url(l) \in fetched \cup Range(saved.urls_to_visit)
       /\ Range(saved.urls_to_visit) \subseteq GraphPages \ fetched
       /\ LoadTracker(trackerFile) = fetched

C14_Witness ==
  /\ FirstRunReturned
  /\ Cardinality(GraphPages) > MaxPages
  /\ Len(scraped_content) = MaxPages
  /\ LoadCheckpoint(checkpointFile).urls_to_visit # <<>>
  /\ \E u \in GraphPages \ DocUrls(scraped_content) :
       u \notin Range(LoadCheckpoint(checkpointFile).urls_to_visit)

\* C15: URL normalization is idempotent: normalizing a normalized URL gives
\* the same URL.
C15_NormalizeIdempotent ==
  [][op.kind = "normalize" /\ op'.kind = "normalize" => op'.url = op.url]_vars

OffHost(u) == Netloc(u) # Netloc(Base)

\* C16: the classifier rejects every URL whose host differs from the base
\* URL's host, so the links recorded for a fetched page hold none of the
\* page's off-host hrefs, and no URL that a fetch step appends to the
\* frontier or to the PDF worklist has another host.
C16_OffHostRejected ==
  /\ [](\A i \in 1..Len(scraped_content) :
          /\ \A l \in Links(scraped_content[i].url) : OffHost(l) => ~_is_valid_url(l)
          /\ \A l \in scraped_content[i].links : ~OffHost(l))
  /\ [][op'.kind = "fetch" =>
          /\ \A i \in Len(urls_to_visit)..Len(urls_to_visit') : ~OffHost(urls_to_visit'[i])
          /\ \A i \in (Len(pdf_urls) + 1)..Len(pdf_urls') : ~OffHost(pdf_urls'[i])]_vars

C16_Witness ==
  /\ op.kind = "fetch"
  /\ op.outcome = "ok"
  /\ \E l \in Links(op.url) : OffHost(l) /\ is_pdf_url(l)
  /\ \E l \in Links(op.url) : ~OffHost(l) /\ l \in Range(pdf_urls)
  /\ \E l \in Links(op.url) : ~OffHost(l) /\ l \in Range(urls_to_visit)

\* C17: once scrape_website has begun to acquire the browser, the browser
\* and the Playwright handle are released by the time scrape_website ends,
\* whether it returns or raises.
C17_BrowserReleased ==
  sw.at = "ended" => browser # "open" /\ playwright # "started"

NewCall == ingest'.calls = ingest.calls + 1

\* C18: a document whose source is already stored in the backend is skipped
\* and nothing is stored for it, whatever the number of chunks already
\* stored; a document with text whose source is not stored is added when its
\* call returns.  (Calls whose lookup of the existing sources works.)
C18_DuplicateSourceSkipped ==
  [][NewCall /\ ingest'.lookup = "ok" =>
       \A i \in 1..Len(ingest'.docs) :
         LET d == ingest'.docs[i] IN
           d.chunks > 0 =>
             IF d.source \in StoredSources(store)
             THEN d.source \in ingest'.skipped /\ d.source \notin ingest'.sent
             ELSE ingest'.result = "returned" => d.source \in StoredSources(store')]_vars

\* C19: when the write of a chunk batch fails, add_documents raises to its
\* caller and the caller does not report a successful ingest; the batches
\* written before the failure stay in the store.
C19_WriteFailureRaised ==
  /\ [](ingest.failed_batch # 0 => ingest.result = "raised" /\ ingest.reported = "error")
  /\ [][NewCall /\ ingest'.failed_batch # 0 =>
          /\ Len(store) <= Len(store')
          /\ SubSeq(store', 1, Len(store)) = store
          /\ TotalChunks(store') - TotalChunks(store) = (ingest'.failed_batch - 1) * batch_size]_vars

C19_Witness ==
  /\ ingest.failed_batch = 2
  /\ ingest.result = "raised"
  /\ ingest.reported = "error"
  /\ TotalChunks(store) = batch_size

\* C20: extract_text returns a document only when the quality score of its
\* text lies in [0,1] and is at least 0.3, and returns None otherwise; every
\* PDF document in a crawl result has a quality score of at least 0.3.
C20_QualityGate ==
  /\ \A t \in PdfTexts :
       LET pdf_content == extract_text(t, TRUE)
           q == _calculate_text_quality_score(t)
       IN /\ q \in 0..1000
          /\ pdf_content.found =>
               q >= quality_threshold /\ pdf_content.quality_score = q
          /\ ~pdf_content.found => q < quality_threshold \/ RawLen(t) < min_text_len
          /\ ~extract_text(t, FALSE).found
  /\ \A i \in PdfDocs(scraped_content) :
       scraped_content[i].quality_score \in quality_threshold..1000

C20_Witness ==
  /\ op.kind = "extract"
  /\ op.outcome = "low_quality"
  /\ \E i \in PdfDocs(scraped_content) : scraped_content[i].quality_score < 1000
  /\ \E t \in PdfTexts : _calculate_text_quality_score(t) = 0 /\ RawLen(t) >= min_text_len

(* C21: every string held by the Tracker, in memory or in its file, equals
   its own normalization, and so does every URL that the crawler has passed
   to mark_scraped in the current run, in the HTML traversal and in the PDF
   pass. *)
C21_TrackerHoldsNormalized ==
  \A u \in tracker \cup LoadTracker(trackerFile) \cup marked : _normalize_url(u) = u

(* C22: when no save has been cut short, what a new process loads from the
   checkpoint file is exactly what the last save was given: the results, the
   PDF worklist, the visited set, the frontier and the count, and nothing of
   an earlier save; it is the empty snapshot when no file exists.  The live
   object that made the save returns the same from get_checkpoint. *)
C22_SaveLoadRoundTrip ==
  /\ ~ckfile.exists => JsonLoad(ckfile) = ListForm(EmptyCheckpoint, <<>>)
  /\ (ckobj.new = <<>> /\ ckobj.saved # <<>>) =>
       /\ AsSnapshot(JsonLoad(ckfile)) = ckobj.saved[1]
       /\ ckobj.alive => AsSnapshot(ckobj.data) = ckobj.saved[1]

\* A second save has returned and a new process has loaded the file.
C22_Witness ==
  /\ ckobj.alive /\ ckobj.new = <<>> /\ ckobj.saved # <<>>
  /\ ckobj.saved[1].scraped_count = 2
  /\ Len(ckobj.data.visited_urls) = 2
  /\ ckobj.data = JsonLoad(ckfile)

(* C24: when the fetch of a page succeeds with more than 50 characters and
   its link extraction fails or times out, the step appends the page's
   document with an empty link list to the results, marks the page's URL in
   the Tracker, removes only that page from the frontier and leaves the PDF
   worklist as it was. *)
C24_LinkFailureKeepsPage ==
  [][(op'.kind = "fetch" /\ op'.outcome = "ok_no_links") =>
       /\ scraped_content' =
            Append(scraped_content, [url |-> current_url, type |-> "html", links |-> {}])
       /\ current_url \in tracker'
       /\ urls_to_visit' = Tail(urls_to_visit)
       /\ pdf_urls' = pdf_urls]_vars

\* Link extraction has just failed on a fetched page that links to a page
\* and to a PDF which the crawl has not seen.
C24_Witness ==
  /\ op.kind = "fetch" /\ op.outcome = "ok_no_links"
  /\ op.url \in tracker
  /\ scraped_content[Len(scraped_content)].url = op.url
  /\ \E l \in _get_links(op.url) :
       /\ ~is_pdf_url(l)
       /\ _normalize_url(l) \notin visited_urls \cup Range(urls_to_visit) \cup scraped_urls
  /\ \E l \in _get_links(op.url) :
       is_pdf_url(l) /\ l \notin Range(pdf_urls) /\ _normalize_url(l) \notin scraped_urls

(* C25: within one crawl session at most one page fetch or PDF extraction is
   in progress at any moment: an operation that hit its timeout has stopped
   before the next operation is started. *)
C25_OneOperationAtATime ==
  (IF tasks.at = "awaiting" THEN 1 ELSE 0) + Cardinality(tasks.threads) <= 1

(* C26: if the first crawl stops at max_pages with URLs left in its
   frontier, then calling scrape_website again and again with the same
   parameters leads to a state in which every one of those URLs has been
   fetched. *)
C26_LeftoverEventuallyFetched ==
  \A u \in GraphPages :
    (FirstRunReturned /\ Len(scraped_content) = MaxPages /\ u \in Range(urls_to_visit))
      ~> (u \in DocUrls(scraped_content))

(* C27: at every iteration of the HTML traversal, whatever the seed URLs,
   the frontier holds no URL twice and holds no URL of the session's
   visited set. *)
C27_FrontierDistinctUnvisited ==
  pc = "loop" =>
    /\ \A i, j \in 1..Len(urls_to_visit) : urls_to_visit[i] = urls_to_visit[j] => i = j
    /\ Range(urls_to_visit) \cap visited_urls = {}

(* C28: after an add_documents call with skip_duplicates enabled the backend
   holds the chunks of at most one document per source, also when the list
   of that one call holds two documents with the same source.  (Calls whose
   lookup of the existing sources works and sees the whole store, made on a
   store that holds at most one document per source.) *)
C28_OneDocumentPerSource ==
  [][LET OnePerSource(st) ==
           \A i, j \in 1..Len(st) : st[i].source = st[j].source => i = j
     IN (/\ NewCall
         /\ ingest'.lookup = "ok"
         /\ TotalChunks(store) <= get_limit
         /\ OnePerSource(store)) => OnePerSource(store')]_vars

(* C29: whenever scrape_website is between two frontier URLs, no page that
   scrape_page opened is still open: the page is closed on success, on too
   little content, on a load failure, on an exception and on cancellation
   by the 15-second timeout. *)
C29_PageClosedBeforeNext ==
  page.at = "idle" => page.open = 0

(* C30: after a crash, also one in the middle of a checkpoint write, load
   returns the snapshot of the last save that returned or the snapshot of
   the save that was cut short; it returns the empty snapshot only if no
   save has ever returned. *)
C30_CrashKeepsSnapshot ==
  ~ckobj.alive =>
    AsSnapshot(JsonLoad(ckfile)) \in
      Range(ckobj.saved) \cup Range(ckobj.new)
        \cup (IF ckobj.saved = <<>> THEN {EmptyCheckpoint} ELSE {})

(* C23: in extract_text no extractor runs unless download_pdf returned the
   bytes of a response that starts with %PDF; the extractors run in the
   order pdfplumber, PyPDF2, OCR; PyPDF2 runs only if pdfplumber yielded
   fewer than 50 characters; OCR runs only if pdfplumber and PyPDF2 both
   yielded fewer than 50 characters. *)
C23_StrictOrder ==
  px.at # "idle" =>
    LET rank == [stage \in {"pdfplumber", "pypdf2", "ocr"} |->
                   IF stage = "pdfplumber" THEN 1 ELSE IF stage = "pypdf2" THEN 2 ELSE 3]
    IN /\ px.ran # <<>> => px.input.download = "pdf"
       /\ \A i, j \in 1..Len(px.ran) : i < j => rank[px.ran[i]] < rank[px.ran[j]]
       /\ "pypdf2" \in Range(px.ran) => RawLen(px.input.pdfplumber) < min_text_len
       /\ "ocr" \in Range(px.ran) =>
            RawLen(px.input.pdfplumber) < min_text_len /\ RawLen(px.input.pypdf2) < min_text_len

(* C23 as amended: the same, except that PyPDF2 runs only if pdfplumber
   yielded fewer than 50 characters or a text that is garbled once cleaned;
   OCR needs the OCR libraries as well. *)
C23_OrderWithGarbledRetry ==
  px.at # "idle" =>
    LET rank == [stage \in {"pdfplumber", "pypdf2", "ocr"} |->
                   IF stage = "pdfplumber" THEN 1 ELSE IF stage = "pypdf2" THEN 2 ELSE 3]
    IN /\ px.ran # <<>> => px.input.download = "pdf"
       /\ \A i, j \in 1..Len(px.ran) : i < j => rank[px.ran[i]] < rank[px.ran[j]]
       /\ "pypdf2" \in Range(px.ran) =>
            RawLen(px.input.pdfplumber) < min_text_len \/ _is_garbled_text(px.input.pdfplumber)
       /\ "ocr" \in Range(px.ran) =>
            /\ RawLen(px.input.pdfplumber) < min_text_len /\ RawLen(px.input.pypdf2) < min_text_len
            /\ px.input.ocr_available

\* PyPDF2 has run as the alternative to a garbled pdfplumber text of at least
\* 50 characters, and its text was returned.
C23_Witness ==
  /\ px.at = "done" /\ px.found
  /\ px.ran = <<"pdfplumber", "pypdf2">>
  /\ RawLen(px.input.pdfplumber) >= min_text_len /\ _is_garbled_text(px.input.pdfplumber)
  /\ px.text = px.input.pypdf2 /\ ~px.used_pdfplumber

====
